---- MODULE Spec2Model ----
(***************************************************************************)
(* A model of convert.py (ConvF Music): the command-line front end main(), *)
(* the single-file converter convert_file(), the batch converter           *)
(* convert_folder() and the codec policy table get_output_codec().         *)
(*                                                                         *)
(* Paths, file names and format identifiers are sequences of one-character *)
(* strings, so that lower(), splitext(), endswith() and join() are         *)
(* computed character by character as Python computes them.  The tokens of *)
(* a codec specification ("-c:a", "libvorbis", ...) are never taken apart  *)
(* by the program and are plain strings.                                   *)
(***************************************************************************)
EXTENDS Integers, Sequences, FiniteSets, TLC

VARIABLES
    args,        \* the argparse namespace, plus argv_empty and format_given
    ffmpeg,      \* TRUE iff an ffmpeg executable is on the PATH
    files,       \* the paths that are regular files
    dirs,        \* the paths that are directories
    listing,     \* os.listdir of the directory Dir, in listing order
    pc,          \* the position of main()
    exit_code,   \* what sys.exit receives; -1 while main() runs
    shown,       \* what the run displayed: "none", "help" or "catalog"
    trace,       \* the external effects of the run, in order
    calls,       \* one record per call of convert_file, in order
    audio_files, \* convert_folder: the candidates
    idx,         \* convert_folder: the loop index i
    success_count,
    skip_count,
    fail_count,
    classified,  \* convert_folder: one record per candidate handled
    summary      \* convert_folder: the counters printed, <<>> before

vars == <<args, ffmpeg, files, dirs, listing, pc, exit_code, shown, trace,
          calls, audio_files, idx, success_count, skip_count, fail_count,
          classified, summary>>

-----------------------------------------------------------------------------
(* Bounds of the model *)

\* the largest number of entries of the listed directory
MaxFiles == 3

-----------------------------------------------------------------------------
(* Strings *)

UpperCase == <<"A","B","C","D","E","F","G","H","I","J","K","L","M",
               "N","O","P","Q","R","S","T","U","V","W","X","Y","Z">>
LowerCase == <<"a","b","c","d","e","f","g","h","i","j","k","l","m",
               "n","o","p","q","r","s","t","u","v","w","x","y","z">>

\* str.lower() on one character
lower_char(c) ==
    IF \E i \in 1..26 : UpperCase[i] = c
    THEN LowerCase[CHOOSE i \in 1..26 : UpperCase[i] = c]
    ELSE c

\* str.lower()
lower(s) == [i \in 1..Len(s) |-> lower_char(s[i])]

\* str.endswith(suffix)
endswith(s, suffix) ==
    /\ Len(suffix) <= Len(s)
    /\ SubSeq(s, Len(s) - Len(suffix) + 1, Len(s)) = suffix

\* str.rfind of a single character; 0 when absent (positions from 1)
rfind(s, c) ==
    IF \E i \in 1..Len(s) : s[i] = c
    THEN CHOOSE i \in 1..Len(s) :
            s[i] = c /\ \A j \in (i+1)..Len(s) : s[j] # c
    ELSE 0

\* os.path.splitext: <<root, ext>>.  The extension starts at the last dot
\* of the last path component, unless that component has only dots before
\* it (leading dots are not an extension separator).
splitext(p) ==
    LET sepIndex == rfind(p, "/")
        dotIndex == rfind(p, ".")
    IN  IF /\ dotIndex > sepIndex
           /\ \E k \in (sepIndex+1)..(dotIndex-1) : p[k] # "."
        THEN <<SubSeq(p, 1, dotIndex - 1), SubSeq(p, dotIndex, Len(p))>>
        ELSE <<p, <<>> >>

\* os.path.join(folder_path, filename) for a relative filename
join(folder_path, filename) ==
    IF folder_path = <<>> \/ endswith(folder_path, <<"/">>)
    THEN folder_path \o filename
    ELSE folder_path \o <<"/">> \o filename

Digits == <<"0","1","2","3","4","5","6","7","8","9">>

\* str(quality) for a non-negative int
RECURSIVE str(_)
str(n) == IF n < 10 THEN Digits[n + 1]
          ELSE str(n \div 10) \o Digits[(n % 10) + 1]

\* an optional value: None, or Some(v)
None == <<>>
Some(v) == <<v>>

-----------------------------------------------------------------------------
(* Program constants *)

COMMON_AUDIO_FORMATS ==
    { <<".","m","p","3">>, <<".","a","a","c">>, <<".","o","g","g">>,
      <<".","o","p","u","s">>, <<".","m","4","a">>, <<".","w","m","a">>,
      <<".","v","o","r","b","i","s">>,
      <<".","f","l","a","c">>, <<".","w","a","v">>, <<".","a","i","f","f">>,
      <<".","a","l","a","c">>, <<".","a","p","e">>, <<".","w","v">>,
      <<".","a","c","3">>, <<".","a","m","r">>, <<".","a","u">>,
      <<".","m","i","d">>, <<".","m","k","a">>, <<".","r","a">>,
      <<".","s","h","n">> }

\* the extensions convert_folder refuses
DenyList ==
    { <<".","t","x","t">>, <<".","j","p","g">>, <<".","p","n","g">>,
      <<".","p","d","f">>, <<".","d","o","c">>, <<".","d","o","c","x">>,
      <<".","e","x","e">>, <<".","z","i","p">> }

\* the dictionary get_output_codec builds on every call
format_codec_map ==
    ( <<".","m","p","3">>     :> <<"-c:a", "libmp3lame", "-q:a", "4">> ) @@
    ( <<".","o","g","g">>     :> <<"-c:a", "libvorbis", "-q:a", "5">> ) @@
    ( <<".","o","p","u","s">> :> <<"-c:a", "libopus", "-b:a", "128k">> ) @@
    ( <<".","m","4","a">>     :> <<"-c:a", "aac", "-b:a", "192k">> ) @@
    ( <<".","f","l","a","c">> :> <<"-c:a", "flac">> ) @@
    ( <<".","w","a","v">>     :> <<"-c:a", "pcm_s16le">> ) @@
    ( <<".","a","a","c">>     :> <<"-c:a", "aac", "-b:a", "192k">> ) @@
    ( <<".","w","m","a">>     :> <<"-c:a", "wmav2", "-b:a", "192k">> ) @@
    ( <<".","a","l","a","c">> :> <<"-c:a", "alac">> )

\* get_output_codec(output_format)
get_output_codec(output_format) ==
    IF lower(output_format) \in DOMAIN format_codec_map
    THEN format_codec_map[lower(output_format)]
    ELSE <<"-c:a", "copy">>

-----------------------------------------------------------------------------
(* The environment *)

\* a faulty isfile: the existence check of line 80 left out
isfile_unchecked(path) == TRUE

\* os.path.isfile
isfile(path) == path \in files

\* os.path.isdir
isdir(path) == path \in dirs

\* what one run of the ffmpeg command can end as: exit status 0, a non-zero
\* exit status, or an exception raised by subprocess.run.  Without an
\* executable on the PATH subprocess.run raises FileNotFoundError.
Outcomes == IF ffmpeg THEN {"ok", "fail", "raise"} ELSE {"raise"}

\* Python truthiness of an optional string: neither None nor ""
truthy(opt) == opt # None /\ opt[1] # <<>>

-----------------------------------------------------------------------------
(* convert_file *)

\* a faulty substitution: "and quality" in place of "and quality is not
\* None", which takes quality 0 for no quality at all
substitute_quality_truthy(codec_settings, quality) ==
    IF quality # 0 /\ \E k \in 1..Len(codec_settings) : codec_settings[k] = "-q:a"
    THEN LET q_index == CHOOSE k \in 1..Len(codec_settings) :
                            /\ codec_settings[k] = "-q:a"
                            /\ \A j \in 1..(k-1) : codec_settings[j] # "-q:a"
         IN  IF q_index + 1 <= Len(codec_settings)
             THEN [codec_settings EXCEPT ![q_index + 1] = str(quality)]
             ELSE codec_settings
    ELSE codec_settings

\* lines 106-109: overwrite the token that follows "-q:a" by str(quality)
substitute_quality(codec_settings, quality) ==
    IF \E k \in 1..Len(codec_settings) : codec_settings[k] = "-q:a"
    THEN LET q_index == CHOOSE k \in 1..Len(codec_settings) :
                            /\ codec_settings[k] = "-q:a"
                            /\ \A j \in 1..(k-1) : codec_settings[j] # "-q:a"
         IN  IF q_index + 1 <= Len(codec_settings)
             THEN [codec_settings EXCEPT ![q_index + 1] = str(quality)]
             ELSE codec_settings
    ELSE codec_settings

\* lines 85-94: the output format convert_file works with; <<>> when the
\* output file name carries no extension
resolve_output_format(output_file, format) ==
    IF format # <<>>
    THEN <<".">> \o lower(format)
    ELSE IF truthy(output_file)
         THEN lower(splitext(output_file[1])[2])
         ELSE <<".","o","g","g">>

\* lines 97-98: the output file name
resolve_output_file(input_file, output_file, output_format) ==
    IF output_file = None
    THEN splitext(input_file)[1] \o output_format
    ELSE output_file[1]

\* lines 112-114: the ffmpeg command
ffmpeg_cmd(input_file, codec_settings, output_file) ==
    <<"ffmpeg", "-i", input_file>> \o codec_settings \o <<output_file>>

\* convert_file(input_file, output_file, quality, format) when the ffmpeg
\* run, if there is one, ends as `outcome`.  The record tells what the call
\* returned, whether it ran ffmpeg, with which command and how that ended.
convert_file(input_file, output_file, quality, format, outcome) ==
    LET output_format == resolve_output_format(output_file, format)
        out == resolve_output_file(input_file, output_file, output_format)
        refused == [input_file |-> input_file, output_arg |-> output_file,
                    quality |-> quality, format |-> format,
                    existed |-> input_file \in files,
                    output_format |-> <<>>, output_file |-> <<>>,
                    invoked |-> FALSE, outcome |-> "none", cmd |-> <<>>,
                    ret |-> FALSE]
    IN  IF ~isfile(input_file)
        THEN refused
        ELSE IF format = <<>> /\ truthy(output_file) /\ output_format = <<>>
        THEN refused
        ELSE [refused EXCEPT
                !.output_format = output_format,
                !.output_file = out,
                !.invoked = TRUE,
                !.outcome = outcome,
                !.cmd = ffmpeg_cmd(input_file,
                            substitute_quality(get_output_codec(output_format),
                                               quality),
                            out),
                !.ret = (outcome = "ok")]

\* the external effects of one call of convert_file, in order
call_effects(r) ==
    <<"isfile">> \o (IF r.invoked THEN <<"ffmpeg">> ELSE <<>>)

\* the files after the call: a run of ffmpeg that exits 0 has written the
\* output file
files_after(r) ==
    IF r.invoked /\ r.ret THEN files \cup {r.output_file} ELSE files

-----------------------------------------------------------------------------
(* The inputs of a run *)

\* the directory a batch run is pointed at, and a path that does not exist
Dir   == <<"d">>
NoDir == <<"n">>

\* the entries a listing of Dir is drawn from: a.wav, b.mp3, c.txt, B.MP3,
\* D.TXT, R (no extension) and s.d (a subdirectory)
SubDirName == <<"s",".","d">>
EntryNames ==
    { <<"a",".","w","a","v">>, <<"b",".","m","p","3">>,
      <<"c",".","t","x","t">>, <<"B",".","M","P","3">>,
      <<"D",".","T","X","T">>, <<"R">>, SubDirName }

\* the listings of Dir: no name twice, at most MaxFiles names
Listings ==
    { l \in UNION { [1..n -> EntryNames] : n \in 0..MaxFiles } :
        \A i, j \in 1..Len(l) : i # j => l[i] # l[j] }

\* the single-file inputs: t.wav, which exists, and g.wav, which does not
TrackWav == <<"t",".","w","a","v">>
TrackMp3 == <<"t",".","m","p","3">>
GoneWav  == <<"g",".","w","a","v">>

\* the -o values: none, o.mp3, o (no extension), o.FLAC
OutputArgs ==
    { None, Some(<<"o",".","m","p","3">>), Some(<<"o">>),
      Some(<<"o",".","F","L","A","C">>) }

\* the --format values: mp3, MP3, .mp3, flac, xyz and the empty string
FormatArgs ==
    { <<"m","p","3">>, <<"M","P","3">>, <<".","m","p","3">>,
      <<"f","l","a","c">>, <<"x","y","z">>, <<>> }

\* the -q values a user gives, among argparse's choices range(0, 11); the
\* default 5 comes with DefaultArgs
Qualities == {0, 8}

\* lines 254-262: the namespace parse_args returns without any option
DefaultArgs ==
    [argv_empty |-> FALSE, file |-> None, directory |-> None,
     list_formats |-> FALSE, output |-> None,
     format |-> <<"o","g","g">>, format_given |-> FALSE, quality |-> 5]

\* the namespaces with --format and -q as the user may give them
WithOptions(base) ==
    { [base EXCEPT !.format = f, !.format_given = TRUE, !.quality = q] :
        f \in FormatArgs, q \in Qualities }
    \cup { [base EXCEPT !.quality = q] : q \in Qualities \cup {base.quality} }

\* -f/--file, -d/--directory and --list-formats exclude each other
FileArgs ==
    UNION { WithOptions([DefaultArgs EXCEPT !.file = Some(f), !.output = o]) :
              f \in {TrackWav, GoneWav}, o \in OutputArgs }
DirArgs ==
    UNION { WithOptions([DefaultArgs EXCEPT !.directory = Some(d)]) :
              d \in {Dir, NoDir} }
ListArgs == { [DefaultArgs EXCEPT !.list_formats = TRUE] }
OptionsOnlyArgs ==
    { [DefaultArgs EXCEPT !.format = f, !.format_given = TRUE] : f \in FormatArgs }
NoArgs == { [DefaultArgs EXCEPT !.argv_empty = TRUE] }

Init ==
    /\ args \in FileArgs \cup DirArgs \cup ListArgs \cup OptionsOnlyArgs \cup NoArgs
    /\ ffmpeg \in BOOLEAN
    /\ listing \in Listings
    /\ (args.directory # Some(Dir) => listing = <<>>)
    /\ \E extra \in SUBSET {TrackMp3} :
          /\ (args.file = None => extra = {})
          /\ files = {TrackWav} \cup extra
                     \cup { join(Dir, listing[i]) :
                              i \in { k \in 1..Len(listing) : listing[k] # SubDirName } }
    /\ dirs = {Dir} \cup { join(Dir, listing[i]) :
                              i \in { k \in 1..Len(listing) : listing[k] = SubDirName } }
    /\ pc = "start"
    /\ exit_code = -1
    /\ shown = "none"
    /\ trace = <<>>
    /\ calls = <<>>
    /\ audio_files = <<>>
    /\ idx = 0
    /\ success_count = 0
    /\ skip_count = 0
    /\ fail_count = 0
    /\ classified = <<>>
    /\ summary = <<>>

-----------------------------------------------------------------------------
(* main *)

\* lines 268-271: no argument at all: print the help, return 0
ShowHelp ==
    /\ pc = "start"
    /\ args.argv_empty
    /\ shown' = "help"
    /\ exit_code' = 0
    /\ pc' = "done"
    /\ UNCHANGED <<args, ffmpeg, files, dirs, listing, trace, calls, audio_files,
                   idx, success_count, skip_count, fail_count, classified, summary>>

\* a faulty probe: the "return 1" of line 279 left out
ProbeFfmpeg_no_return ==
    /\ pc = "start"
    /\ ~args.argv_empty
    /\ trace' = Append(trace, "probe")
    /\ pc' = "probed"
    /\ UNCHANGED <<args, ffmpeg, files, dirs, listing, shown, calls, audio_files,
                   idx, success_count, skip_count, fail_count, classified, summary,
                   exit_code>>

\* lines 273-279: run "ffmpeg -version"; FileNotFoundError ends the run
ProbeFfmpeg ==
    /\ pc = "start"
    /\ ~args.argv_empty
    /\ trace' = Append(trace, "probe")
    /\ IF ffmpeg
       THEN pc' = "probed" /\ UNCHANGED exit_code
       ELSE pc' = "done" /\ exit_code' = 1
    /\ UNCHANGED <<args, ffmpeg, files, dirs, listing, shown, calls, audio_files,
                   idx, success_count, skip_count, fail_count, classified, summary>>

\* lines 281-284: --list-formats: print the catalog, return 0
ListFormats ==
    /\ pc = "probed"
    /\ args.list_formats
    /\ shown' = "catalog"
    /\ exit_code' = 0
    /\ pc' = "done"
    /\ UNCHANGED <<args, ffmpeg, files, dirs, listing, trace, calls, audio_files,
                   idx, success_count, skip_count, fail_count, classified, summary>>

\* lines 286-289: neither a file nor a directory: return 1
NoInput ==
    /\ pc = "probed"
    /\ ~args.list_formats
    /\ ~truthy(args.file) /\ ~truthy(args.directory)
    /\ exit_code' = 1
    /\ pc' = "done"
    /\ UNCHANGED <<args, ffmpeg, files, dirs, listing, shown, trace, calls,
                   audio_files, idx, success_count, skip_count, fail_count,
                   classified, summary>>

\* lines 293-295: an output name without extension gets "." + args.format
main_output(a) ==
    IF truthy(a.output) /\ splitext(a.output[1])[2] = <<>>
    THEN Some(a.output[1] \o <<".">> \o a.format)
    ELSE a.output

\* lines 292-302 and 306: the single-file run
MainConvertFile ==
    /\ pc = "probed"
    /\ ~args.list_formats
    /\ truthy(args.file)
    /\ \E outcome \in Outcomes :
          LET out == main_output(args)
              r == convert_file(args.file[1], out, args.quality, args.format,
                                outcome)
          IN  /\ args' = [args EXCEPT !.output = out]
              /\ calls' = Append(calls, r)
              /\ trace' = trace \o call_effects(r)
              /\ files' = files_after(r)
              /\ exit_code' = IF r.ret THEN 0 ELSE 1
    /\ pc' = "done"
    /\ UNCHANGED <<ffmpeg, dirs, listing, shown, audio_files, idx, success_count,
                   skip_count, fail_count, classified, summary>>

-----------------------------------------------------------------------------
(* convert_folder *)

\* line 150: the dot-prefixed target format
folder_output_format(format) == <<".">> \o lower(format)

\* a faulty candidate test: the extension is not lowercased
is_candidate_no_lower(filename) ==
    LET file_ext == splitext(filename)[2]
    IN  /\ file_ext # <<>>
        /\ (file_ext \in COMMON_AUDIO_FORMATS \/ file_ext \notin DenyList)

\* lines 158-159: is the directory entry a potential audio file
is_candidate(filename) ==
    LET file_ext == lower(splitext(filename)[2])
    IN  /\ file_ext # <<>>
        /\ (file_ext \in COMMON_AUDIO_FORMATS \/ file_ext \notin DenyList)

\* line 178: is the candidate already in the target format
already_in_format(filename, output_format) ==
    endswith(lower(filename), output_format)

\* a faulty count: a failed conversion is not counted
count_candidate_drop_failed(skipped, ret) ==
    IF skipped THEN <<0, 1, 0>>
    ELSE IF ret THEN <<1, 0, 0>>
    ELSE <<0, 0, 0>>

\* lines 178-192: what one candidate adds to <<success_count, skip_count,
\* fail_count>>: skipped, or else by what convert_file returned
count_candidate(skipped, ret) ==
    IF skipped THEN <<0, 1, 0>>
    ELSE IF ret THEN <<1, 0, 0>>
    ELSE <<0, 0, 1>>

\* a faulty result: ">= 0" in place of "> 0"
folder_result_nonnegative(successes) == successes >= 0

\* line 206: what convert_folder returns after the loop
folder_result(successes) == successes > 0

\* lines 144-172 (and 303-306 when convert_folder returns early): check the
\* directory, list it, select the candidates
ConvertFolderBegin ==
    /\ pc = "probed"
    /\ ~args.list_formats
    /\ ~truthy(args.file)
    /\ truthy(args.directory)
    /\ IF ~isdir(args.directory[1])
       THEN /\ trace' = Append(trace, "isdir")
            /\ exit_code' = 1
            /\ pc' = "done"
            /\ UNCHANGED audio_files
       ELSE LET found == SelectSeq(listing, is_candidate)
            IN  /\ trace' = trace \o <<"isdir", "listdir">>
                /\ audio_files' = found
                /\ IF Len(found) = 0
                   THEN exit_code' = 1 /\ pc' = "done"
                   ELSE UNCHANGED exit_code /\ pc' = "loop"
    /\ idx' = 0
    /\ success_count' = 0
    /\ skip_count' = 0
    /\ fail_count' = 0
    /\ UNCHANGED <<args, ffmpeg, files, dirs, listing, shown, calls, classified,
                   summary>>

\* lines 174-192: one pass of the loop over audio_files
ConvertFolderStep ==
    /\ pc = "loop"
    /\ idx < Len(audio_files)
    /\ LET filename == audio_files[idx + 1]
           folder_path == args.directory[1]
           output_format == folder_output_format(args.format)
           input_file == join(folder_path, filename)
           output_file == join(folder_path,
                               splitext(filename)[1] \o output_format)
       IN  IF already_in_format(filename, output_format)
           THEN /\ classified' = Append(classified,
                                   [name |-> filename, class |-> "skipped"])
                /\ success_count' = success_count + count_candidate(TRUE, FALSE)[1]
                /\ skip_count' = skip_count + count_candidate(TRUE, FALSE)[2]
                /\ fail_count' = fail_count + count_candidate(TRUE, FALSE)[3]
                /\ UNCHANGED <<calls, trace, files>>
           ELSE \E outcome \in Outcomes :
                  LET r == convert_file(input_file, Some(output_file),
                                        args.quality, args.format, outcome)
                  IN  /\ calls' = Append(calls, r)
                      /\ trace' = trace \o call_effects(r)
                      /\ files' = files_after(r)
                      /\ classified' = Append(classified,
                            [name |-> filename,
                             class |-> IF r.ret THEN "converted" ELSE "failed"])
                      /\ success_count' = success_count + count_candidate(FALSE, r.ret)[1]
                      /\ skip_count' = skip_count + count_candidate(FALSE, r.ret)[2]
                      /\ fail_count' = fail_count + count_candidate(FALSE, r.ret)[3]
    /\ idx' = idx + 1
    /\ UNCHANGED <<args, ffmpeg, dirs, listing, pc, exit_code, shown, audio_files,
                   summary>>

\* lines 194-206 and 304-306: print the summary, return, exit
ConvertFolderEnd ==
    /\ pc = "loop"
    /\ idx = Len(audio_files)
    /\ summary' = [total |-> Len(audio_files), converted |-> success_count,
                   skipped |-> skip_count, failed |-> fail_count]
    /\ exit_code' = IF folder_result(success_count) THEN 0 ELSE 1
    /\ pc' = "done"
    /\ UNCHANGED <<args, ffmpeg, files, dirs, listing, shown, trace, calls,
                   audio_files, idx, success_count, skip_count, fail_count,
                   classified>>

-----------------------------------------------------------------------------

Next ==
    \/ ShowHelp
    \/ ProbeFfmpeg
    \/ ListFormats
    \/ NoInput
    \/ MainConvertFile
    \/ ConvertFolderBegin
    \/ ConvertFolderStep
    \/ ConvertFolderEnd

Spec == Init /\ [][Next]_vars

-----------------------------------------------------------------------------
(* Properties *)

\* the run selected a conversion action: -f/--file or -d/--directory
FileRun == truthy(args.file)
DirRun  == ~truthy(args.file) /\ truthy(args.directory)

\* the number of candidates the batch put in class c
CountClass(c) ==
    Cardinality({ k \in 1..Len(classified) : classified[k].class = c })

\* C1: in a batch run every candidate is classified exactly once, in listing
\* order, as converted, skipped or failed; the counters add up to the number
\* of candidates handled so far, and to the total when the summary is
\* printed; a run that entered the loop ends only with the summary, after
\* the last candidate, whatever failed on the way.
C1_BatchAccounting ==
    /\ Len(classified) = idx
    /\ idx <= Len(audio_files)
    /\ \A k \in 1..Len(classified) : classified[k].name = audio_files[k]
    /\ success_count = CountClass("converted")
    /\ skip_count = CountClass("skipped")
    /\ fail_count = CountClass("failed")
    /\ success_count + skip_count + fail_count = idx
    /\ (summary # <<>> =>
          /\ Len(classified) = Len(audio_files)
          /\ summary.total = Len(audio_files)
          /\ summary.converted = CountClass("converted")
          /\ summary.skipped = CountClass("skipped")
          /\ summary.failed = CountClass("failed")
          /\ summary.converted + summary.skipped + summary.failed = summary.total)
    /\ (pc = "done" /\ audio_files # <<>> => summary # <<>>)

\* C1 witness: a summary printed after a conversion that raised, one that
\* exited non-zero or was converted after it
C1_Witness ==
    /\ summary # <<>>
    /\ \E i, j \in 1..Len(calls) :
          /\ i < j
          /\ calls[i].outcome = "raise"
          /\ calls[j].outcome = "ok"
    /\ \E k \in 1..Len(calls) : calls[k].outcome = "fail"

\* C2: a call of convert_file whose input is not an existing regular file
\* returns False and runs no ffmpeg command; ffmpeg runs exactly once per
\* call that found its input.
C2_MissingInputNotInvoked ==
    /\ \A k \in 1..Len(calls) :
          ~calls[k].existed =>
              /\ ~calls[k].ret
              /\ ~calls[k].invoked
              /\ calls[k].cmd = <<>>
    /\ Cardinality({ k \in 1..Len(trace) : trace[k] = "ffmpeg" })
         = Cardinality({ k \in 1..Len(calls) : calls[k].existed /\ calls[k].invoked })

\* C2 witness: a single-file run on a missing input, with -o, --format and
\* -q 0 given, has ended
C2_Witness ==
    /\ pc = "done"
    /\ Len(calls) = 1
    /\ ~calls[1].existed
    /\ calls[1].output_arg # None
    /\ args.format_given
    /\ calls[1].quality = 0


\* the target format as the specification's data model has it: lowercase,
\* without leading separator
RECURSIVE strip_dots(_)
strip_dots(f) == IF f # <<>> /\ f[1] = "." THEN strip_dots(Tail(f)) ELSE f
NormalFormat(format) == strip_dots(lower(format))

\* C3 (as claimed): in a batch run a candidate is counted as skipped, and
\* ffmpeg is not run for it, exactly when its lowercased extension equals the
\* dot-prefixed target format; every other candidate is passed to
\* convert_file and counted as converted or failed.
C3_SkippedIffSameExtension ==
    \A k \in 1..Len(classified) :
        LET ext == lower(splitext(classified[k].name)[2])
            same == (ext = <<".">> \o NormalFormat(args.format))
            passed == \E c \in 1..Len(calls) :
                         calls[c].input_file = join(args.directory[1],
                                                    classified[k].name)
        IN  /\ same => classified[k].class = "skipped" /\ ~passed
            /\ ~same => classified[k].class # "skipped" /\ passed

\* the codec arguments of a command: the tokens between the input path and
\* the output path
CodecOf(cmd) == SubSeq(cmd, 4, Len(cmd) - 1)

\* C4 (as claimed): the codec arguments of a single-file run are those of
\* the --format value when the user gave one, otherwise those of the
\* extension of the -o value, otherwise those of ogg.
C4_FormatPrecedence ==
    (FileRun /\ pc = "done" /\ Len(calls) = 1 /\ calls[1].invoked) =>
        LET target ==
                IF args.format_given /\ args.format # <<>>
                THEN <<".">> \o lower(args.format)
                ELSE IF truthy(args.output)
                     THEN lower(splitext(args.output[1])[2])
                     ELSE <<".","o","g","g">>
        IN  CodecOf(calls[1].cmd)
              = substitute_quality(get_output_codec(target), calls[1].quality)

\* C5 (as claimed): a batch run over an existing directory with candidates
\* and ffmpeg present never exits with 1.
C5_NoFailureFromFileFailures ==
    (DirRun /\ pc = "done" /\ exit_code = 1) =>
        \/ ~ffmpeg
        \/ args.directory[1] \notin dirs
        \/ audio_files = <<>>

\* C5 (amended): a batch run exits with 0 exactly when ffmpeg is present,
\* the directory exists, there are candidates and at least one of them was
\* converted; failures of other candidates do not change that, but a run in
\* which no candidate was converted exits with 1.
C5_SuccessIffSomeConverted ==
    (DirRun /\ pc = "done") =>
        /\ exit_code \in {0, 1}
        /\ exit_code = 0 <=>
              /\ ffmpeg
              /\ args.directory[1] \in dirs
              /\ audio_files # <<>>
              /\ CountClass("converted") > 0

\* C5 witness: a batch run that exited with 0 although a candidate failed
C5_Witness ==
    /\ DirRun /\ pc = "done" /\ exit_code = 0
    /\ CountClass("failed") > 0

\* C6 (as claimed): a run that asks for the list of formats, or that has no
\* argument, shows the catalog or the help and exits with 0, with or without
\* ffmpeg.
C6_ListAndHelpExitZero ==
    (pc = "done" /\ (args.list_formats \/ args.argv_empty)) =>
        /\ exit_code = 0
        /\ shown = (IF args.argv_empty THEN "help" ELSE "catalog")

\* C7: in a run that selected a conversion action the probe is the first
\* external effect; when the probe fails nothing follows it: no check of the
\* file system, no listing, no ffmpeg command, no call of convert_file, and
\* the run ends with exit code 1.
C7_ProbeFirst ==
    /\ (trace # <<>> => trace[1] = "probe")
    /\ \A k \in 2..Len(trace) : trace[k] # "probe"
    /\ ((FileRun \/ DirRun) /\ ~ffmpeg) =>
          /\ \A k \in 1..Len(trace) : trace[k] = "probe"
          /\ calls = <<>>
          /\ classified = <<>>
          /\ (pc = "done" => exit_code = 1 /\ trace = <<"probe">>)

\* C7 witness: a conversion run ended by the failed probe
C7_Witness ==
    /\ (FileRun \/ DirRun) /\ ~ffmpeg
    /\ pc = "done"
    /\ trace = <<"probe">>


\* the candidate rule as the specification words it
ClaimedCandidate(name) ==
    LET ext == lower(splitext(name)[2])
    IN  ext # <<>> /\ (ext \in COMMON_AUDIO_FORMATS \/ ext \notin DenyList)

\* C8: once the directory is listed the candidates are exactly the entries
\* with a non-empty extension that is an audio extension or is not refused,
\* in listing order; without candidates the batch fails and handles no
\* file; the directory a.wav, b.mp3, c.txt with target mp3 and a succeeding
\* ffmpeg gives total 2, converted 1, skipped 1, failed 0.
C8_CandidateSet ==
    /\ audio_files = (IF \E k \in 1..Len(trace) : trace[k] = "listdir"
                      THEN SelectSeq(listing, ClaimedCandidate)
                      ELSE <<>>)
    /\ ((DirRun /\ pc = "done" /\ audio_files = <<>>) =>
           /\ exit_code = 1
           /\ calls = <<>> /\ classified = <<>> /\ summary = <<>>)
    /\ ( ( /\ summary # <<>>
           /\ Len(listing) = 3
           /\ { listing[k] : k \in 1..3 }
                = { <<"a",".","w","a","v">>, <<"b",".","m","p","3">>,
                    <<"c",".","t","x","t">> }
           /\ args.format \in { <<"m","p","3">>, <<"M","P","3">> }
           /\ \A k \in 1..Len(calls) : calls[k].outcome = "ok" ) =>
         /\ { audio_files[k] : k \in 1..Len(audio_files) }
              = { <<"a",".","w","a","v">>, <<"b",".","m","p","3">> }
         /\ summary = [total |-> 2, converted |-> 1, skipped |-> 1, failed |-> 0] )

\* C8 witness: the summary of the directory a.wav, b.mp3, c.txt, target mp3
C8_Witness ==
    /\ listing = << <<"a",".","w","a","v">>, <<"b",".","m","p","3">>,
                    <<"c",".","t","x","t">> >>
    /\ args.format = <<"m","p","3">>
    /\ summary # <<>>
    /\ summary.total = 2 /\ summary.converted = 1 /\ summary.skipped = 1

\* the decimal literal of a quality level
QualityLiteral(q) ==
    CASE q = 0 -> "0" [] q = 1 -> "1" [] q = 2 -> "2" [] q = 3 -> "3"
      [] q = 4 -> "4" [] q = 5 -> "5" [] q = 6 -> "6" [] q = 7 -> "7"
      [] q = 8 -> "8" [] q = 9 -> "9" [] q = 10 -> "10"

\* the codec arguments the specification asks for: the table entry with the
\* token after -q:a replaced by the quality, or stream copy without entry
ClaimedCodec(fmt, q) ==
    IF fmt \in DOMAIN format_codec_map
    THEN LET entry == format_codec_map[fmt]
         IN  [k \in 1..Len(entry) |->
                IF k > 1 /\ entry[k-1] = "-q:a"
                THEN QualityLiteral(q) ELSE entry[k]]
    ELSE <<"-c:a", "copy">>

\* C9: every ffmpeg command is ffmpeg, -i, the input path, the codec
\* arguments of the target format with the quality in place of the token
\* after -q:a, and the output path; this holds for every call of a run, the
\* later ones of a batch included.
C9_CommandAssembly ==
    \A k \in 1..Len(calls) :
        calls[k].invoked =>
            LET c == calls[k]
                expected == ClaimedCodec(c.output_format, c.quality)
            IN  /\ Len(c.cmd) = Len(expected) + 4
                /\ c.cmd[1] = "ffmpeg"
                /\ c.cmd[2] = "-i"
                /\ c.cmd[3] = c.input_file
                /\ CodecOf(c.cmd) = expected
                /\ c.cmd[Len(c.cmd)] = c.output_file
                /\ (c.output_arg # None => c.output_file = c.output_arg[1])

\* C9 witness: a batch at quality 0 ran two commands with the quality flag
C9_Witness ==
    /\ Len(calls) >= 2
    /\ \A k \in 1..2 :
          /\ calls[k].invoked
          /\ calls[k].quality = 0
          /\ Len(calls[k].cmd) = 8
          /\ calls[k].cmd[6] = "-q:a"
          /\ calls[k].cmd[7] = "0"

\* C10 (as claimed): without -o the output path of a single-file run is the
\* input path with its extension replaced by a dot and the normalized
\* format, however the format is written.
C10_DerivedOutputPath ==
    (FileRun /\ Len(calls) = 1 /\ calls[1].invoked
       /\ calls[1].output_arg = None
       /\ args.format_given /\ args.format # <<>>) =>
        calls[1].output_file
          = splitext(calls[1].input_file)[1] \o <<".">> \o NormalFormat(args.format)

====
